---------------------------- MODULE Spec2Model ----------------------------
(***************************************************************************)
(* Model of generator.py: the per-second synthetic price generator.        *)
(*                                                                         *)
(* Floating point quantities are modelled in fixed point, every operation  *)
(* rounding to the unit of its result as a float operation rounds to the   *)
(* nearest representable value:                                            *)
(*   prices, anchors, band bounds      PriceUnit  = 1e-3  (mills)          *)
(*   reversion strengths               StrUnit    = 1e-4                   *)
(*   log returns (prev_return)         1e-5                                *)
(*   variances (garch_variance)        1e-10                               *)
(*   sigma, seasonal_vol, returns      1e-9  (nano)                        *)
(*   seasonality factor, z             1e-3, 1e-1                          *)
(* All intermediate products stay below 2^31.                              *)
(***************************************************************************)
EXTENDS Integers, Sequences, FiniteSets, TLC

(***************************************************************************)
(* Bounds of the model.                                                    *)
(***************************************************************************)
\* number of loop iterations (ticks) explored
MaxTicks == 3

\* the number of bars retained per symbol; it stands for the 3 * 24 * 60 * 60
\* of main_loop
MaxHistory == 3

(***************************************************************************)
(* Fixed-point arithmetic standing for the float operations of the source. *)
(***************************************************************************)
\* floor(a * b / d) for d > 0, computed without forming a * b
MulDiv(a, b, d) == (a \div d) * b + ((a % d) * b) \div d

\* x / d rounded toward zero (float division is sign-symmetric)
Trunc(x, d) == IF x >= 0 THEN x \div d ELSE -((-x) \div d)

Max2(a, b) == IF a >= b THEN a ELSE b
Min2(a, b) == IF a <= b THEN a ELSE b

\* max / min of a finite non-empty set of integers (Python max(), min())
MaxOf(S) == CHOOSE x \in S : \A y \in S : y <= x
MinOf(S) == CHOOSE x \in S : \A y \in S : x <= y

\* math.sqrt on integers: the largest r with r*r <= n, by bisection on [lo, hi]
RECURSIVE SqrtIter(_, _, _)
SqrtIter(n, lo, hi) ==
    IF lo >= hi THEN lo
    ELSE LET mid == (lo + hi + 1) \div 2
         IN  IF mid * mid <= n THEN SqrtIter(n, mid, hi)
                               ELSE SqrtIter(n, lo, mid - 1)

ISqrt(n) == SqrtIter(n, 0, 46340)

\* math.exp: the factor exp(x) - 1 in units of 1e-6, x a return in units of
\* 1e-9; Taylor series to the third order, sign-symmetric rounding
ExpM1(x) ==
    LET xm == Trunc(x, 1000)
        h  == Trunc(xm, 100)
        sq == (h * h) \div 200
        cu == Trunc(sq * h, 30000)
    IN  xm + sq + cu

\* math.log(c / o) in units of 1e-5, for prices c, o > 0:
\* ln(1 + u) = u - u^2/2 + u^3/3 with u = (c - o) / o
LogRatio(c, o) ==
    LET u  == Trunc((c - o) * 100000, o)
        u2 == (u * u) \div 100000
    IN  u - (u2 \div 2) + Trunc(u2 * u, 300000)


(***************************************************************************)
(* Configuration and model parameters.                                     *)
(***************************************************************************)
\* GARCH(1,1) parameters: omega in units of 1e-10, the others in percent
GARCH_OMEGA == 1000
GARCH_ALPHA == 6
GARCH_BETA == 88
GARCH_GAMMA == 6

\* the floor of sigma, max(1e-9, ...), in units of 1e-9
SigmaFloor == 1

\* 1.0 in units of reversion strength (1e-4)
StrOne == 10000

Timeframes == {"s1", "m1", "m5", "h1", "d1"}

\* full band widths (min, max), in units of 1e-4
REVERSION_RANGES ==
    [s1 |-> <<10, 200>>, m1 |-> <<20, 500>>, m5 |-> <<50, 700>>,
     h1 |-> <<100, 1000>>, d1 |-> <<1000, 1000>>]

(***************************************************************************)
(* class SyntheticStream                                                   *)
(***************************************************************************)
\* NewStream with the halving of the sampled width forgotten
NewStream_NoHalving(initial_price, u) ==
    [p                  |-> initial_price,
     d1_open            |-> initial_price,
     h1_open            |-> initial_price,
     m5_open            |-> initial_price,
     m1_open            |-> initial_price,
     reversion_strength |-> [tf \in Timeframes |-> u[tf]],
     garch_variance     |-> 100000,
     prev_return        |-> 0,
     boundary_trend     |-> 0]

\* NewStream with the anchors left at zero until their first reset
NewStream_ZeroAnchors(initial_price, u) ==
    [p                  |-> initial_price,
     d1_open            |-> 0,
     h1_open            |-> 0,
     m5_open            |-> 0,
     m1_open            |-> 0,
     reversion_strength |-> [tf \in Timeframes |-> u[tf] \div 2],
     garch_variance     |-> 100000,
     prev_return        |-> 0,
     boundary_trend     |-> 0]

\* SyntheticStream.__init__(initial_price), u the five uniform draws
NewStream(initial_price, u) ==
    [p                  |-> initial_price,
     d1_open            |-> initial_price,
     h1_open            |-> initial_price,
     m5_open            |-> initial_price,
     m1_open            |-> initial_price,
     reversion_strength |-> [tf \in Timeframes |-> u[tf] \div 2],
     garch_variance     |-> 100000,
     prev_return        |-> 0,
     boundary_trend     |-> 0]

\* SyntheticStream.to_dict: the instance's attribute dictionary
ToDict(st) == st

\* FromDict that keeps the default instance's own reversion_strength
FromDict_KeepsOwnStrength(data, fresh_instance) ==
    [k \in DOMAIN fresh_instance |->
        IF k \in DOMAIN data /\ k # "reversion_strength"
        THEN data[k] ELSE fresh_instance[k]]

\* SyntheticStream.from_dict(data): a default instance whose attributes are
\* overwritten by the entries of data
FromDict(data, fresh_instance) ==
    [k \in DOMAIN fresh_instance |->
        IF k \in DOMAIN data THEN data[k] ELSE fresh_instance[k]]

\* json.dump of an attribute dictionary: a JSON object is a set of
\* <<key, value>> members; the nested reversion_strength dictionary is an
\* object itself, the numbers are written so that they read back unchanged
JsonObject(d) == {<<k, d[k]>> : k \in DOMAIN d}
JsonDump(d) ==
    {<<k, IF k = "reversion_strength" THEN JsonObject(d[k]) ELSE d[k]>> :
        k \in DOMAIN d}

\* json.load: the dictionary of the members of a JSON object
JsonDict(obj) == [k \in {m[1] : m \in obj} |-> (CHOOSE m \in obj : m[1] = k)[2]]
JsonLoad(obj) ==
    [k \in {m[1] : m \in obj} |->
        LET v == (CHOOSE m \in obj : m[1] = k)[2]
        IN  IF k = "reversion_strength" THEN JsonDict(v) ELSE v]

(***************************************************************************)
(* The clock: now_dt is a count of seconds; its calendar fields.           *)
(***************************************************************************)
Hour(now_dt) == (now_dt \div 3600) % 24
Minute(now_dt) == (now_dt \div 60) % 60
Second(now_dt) == now_dt % 60

(***************************************************************************)
(* _u_seasonality, _get_garch_volatility                                   *)
(***************************************************************************)
\* cos(2 pi m / 1440) ^ 2 in units of 1e-3.  cos^2 has period 720 minutes and
\* is symmetric about 360; on the first quarter period Bhaskara's formula
\* cos(pi k / 720) ~ (720^2 - 4 k^2) / (720^2 + k^2) is used (error < 0.002).
CosSquared(minute_of_day) ==
    LET k0 == minute_of_day % 720
        k  == IF k0 > 360 THEN 720 - k0 ELSE k0
        c  == ((518400 - 4 * k * k) * 1000) \div (518400 + k * k)
    IN  (c * c) \div 1000

\* _u_seasonality(minute_of_day), in units of 1e-3
USeasonality(minute_of_day) == 750 + CosSquared(minute_of_day) \div 2

\* GetGarchVolatility with the square root forgotten: sigma is the variance
GetGarchVolatility_NoSqrt(prev_return, prev_variance) ==
    LET r2              == prev_return * prev_return
        leverage_effect == IF prev_return < 0
                           THEN MulDiv(r2, GARCH_GAMMA, 100) ELSE 0
        new_variance    == GARCH_OMEGA
                           + MulDiv(r2, GARCH_ALPHA, 100)
                           + leverage_effect
                           + MulDiv(prev_variance, GARCH_BETA, 100)
    IN  [sigma        |-> Max2(SigmaFloor, new_variance \div 10),
         new_variance |-> new_variance]

\* _get_garch_volatility(prev_return, prev_variance):
\* sigma in units of 1e-9, new_variance in units of 1e-10
GetGarchVolatility(prev_return, prev_variance) ==
    LET r2              == prev_return * prev_return
        leverage_effect == IF prev_return < 0
                           THEN MulDiv(r2, GARCH_GAMMA, 100) ELSE 0
        new_variance    == GARCH_OMEGA
                           + MulDiv(r2, GARCH_ALPHA, 100)
                           + leverage_effect
                           + MulDiv(prev_variance, GARCH_BETA, 100)
    IN  [sigma        |-> Max2(SigmaFloor, ISqrt(new_variance * 100) * 1000),
         new_variance |-> new_variance]


(***************************************************************************)
(* _generate_one_second(st, now_dt), z the draw of random.gauss(0, 1) in   *)
(* tenths.  Each step is an operator; GenerateOneSecond composes them.     *)
(***************************************************************************)
\* AnchorResets with the 5-minute, hour and day tests outside the test of
\* the second
AnchorResets_Unnested(now_dt) ==
    (IF Second(now_dt) = 0 THEN {"m1_open"} ELSE {})
    \cup (IF Minute(now_dt) % 5 = 0 THEN {"m5_open"} ELSE {})
    \cup (IF Minute(now_dt) = 0 THEN {"h1_open"} ELSE {})
    \cup (IF Hour(now_dt) = 0 /\ Minute(now_dt) = 0 THEN {"d1_open"} ELSE {})

\* AnchorResets with the day anchor tested on the hour alone
AnchorResets_DayOnHourOnly(now_dt) ==
    IF Second(now_dt) = 0
    THEN {"m1_open"}
         \cup (IF Minute(now_dt) % 5 = 0 THEN {"m5_open"} ELSE {})
         \cup (IF Minute(now_dt) = 0 THEN {"h1_open"} ELSE {})
         \cup (IF Hour(now_dt) = 0 THEN {"d1_open"} ELSE {})
    ELSE {}

\* 1. the anchors assigned on a tick at now_dt
AnchorResets(now_dt) ==
    IF Second(now_dt) = 0
    THEN {"m1_open"}
         \cup (IF Minute(now_dt) % 5 = 0 THEN {"m5_open"} ELSE {})
         \cup (IF Minute(now_dt) = 0 THEN {"h1_open"} ELSE {})
         \cup (IF Hour(now_dt) = 0 /\ Minute(now_dt) = 0 THEN {"d1_open"} ELSE {})
    ELSE {}

\* 1. Update Time-Based Anchors
UpdateAnchors(st, now_dt) ==
    [k \in DOMAIN st |-> IF k \in AnchorResets(now_dt) THEN st.p ELSE st[k]]

\* anchor * (1 - strength), anchor * (1 + strength)
BandLower(anchor, strength) == MulDiv(anchor, StrOne - strength, StrOne)
BandUpper(anchor, strength) == MulDiv(anchor, StrOne + strength, StrOne)

\* the anchor of each timeframe; the 1-second anchor is the last price
AnchorOf(st, tf) ==
    CASE tf = "s1" -> st.p
      [] tf = "m1" -> st.m1_open
      [] tf = "m5" -> st.m5_open
      [] tf = "h1" -> st.h1_open
      [] tf = "d1" -> st.d1_open

\* 3. the bands dictionary: timeframe -> (lower, upper)
Bands(st) ==
    [tf \in Timeframes |->
        <<BandLower(AnchorOf(st, tf), st.reversion_strength[tf]),
          BandUpper(AnchorOf(st, tf), st.reversion_strength[tf])>>]

\* UpperBound taking the widest band instead of the tightest
UpperBound_Widest(bands) == MaxOf({bands[tf][2] : tf \in Timeframes})

\* LowerBound taking the loosest band instead of the tightest
LowerBound_Loosest(bands) == MinOf({bands[tf][1] : tf \in Timeframes})

\* the most restrictive combination of all bands
LowerBound(bands) == MaxOf({bands[tf][1] : tf \in Timeframes})
UpperBound(bands) == MinOf({bands[tf][2] : tf \in Timeframes})

\* BoundaryDrift that pushes upwards while no trend is active
BoundaryDrift_Always(boundary_trend, seasonal_vol) ==
    (IF boundary_trend >= 0 THEN 1 ELSE -1) * (seasonal_vol \div 10)

\* BoundaryDrift with the sign reversed: it pushes towards the wall just hit
BoundaryDrift_Reversed(boundary_trend, seasonal_vol) ==
    (0 - boundary_trend) * (seasonal_vol \div 10)

\* 4. boundary_drift = boundary_trend * seasonal_vol * 0.1
BoundaryDrift(boundary_trend, seasonal_vol) ==
    boundary_trend * (seasonal_vol \div 10)

\* 4. c = o * exp(total_return)
CandidateClose(o, total_return) ==
    o + MulDiv(o, ExpM1(total_return), 1000) \div 1000

\* (upper_bound + lower_bound) / 2
ChannelMid(upper_bound, lower_bound) == (upper_bound + lower_bound) \div 2

\* EnforceBoundaries without the clamp at the lower bound
EnforceBoundaries_NoLowerClamp(c, lower_bound, upper_bound, boundary_trend) ==
    IF c >= upper_bound THEN [c |-> upper_bound, boundary_trend |-> -1]
    ELSE IF c <= lower_bound THEN [c |-> c, boundary_trend |-> 1]
    ELSE IF boundary_trend # 0
    THEN LET channel_mid == ChannelMid(upper_bound, lower_bound)
         IN  IF \/ boundary_trend = -1 /\ c < channel_mid
                \/ boundary_trend = 1 /\ c > channel_mid
             THEN [c |-> c, boundary_trend |-> 0]
             ELSE [c |-> c, boundary_trend |-> boundary_trend]
    ELSE [c |-> c, boundary_trend |-> boundary_trend]

\* EnforceBoundaries with the two trend directions exchanged
EnforceBoundaries_SwappedTrend(c, lower_bound, upper_bound, boundary_trend) ==
    IF c >= upper_bound THEN [c |-> upper_bound, boundary_trend |-> 1]
    ELSE IF c <= lower_bound THEN [c |-> lower_bound, boundary_trend |-> -1]
    ELSE IF boundary_trend # 0
    THEN LET channel_mid == ChannelMid(upper_bound, lower_bound)
         IN  IF \/ boundary_trend = -1 /\ c < channel_mid
                \/ boundary_trend = 1 /\ c > channel_mid
             THEN [c |-> c, boundary_trend |-> 0]
             ELSE [c |-> c, boundary_trend |-> boundary_trend]
    ELSE [c |-> c, boundary_trend |-> boundary_trend]

\* EnforceBoundaries reversing the trend, instead of clearing it, past the
\* middle of the channel
EnforceBoundaries_FlipOnRelease(c, lower_bound, upper_bound, boundary_trend) ==
    IF c >= upper_bound THEN [c |-> upper_bound, boundary_trend |-> -1]
    ELSE IF c <= lower_bound THEN [c |-> lower_bound, boundary_trend |-> 1]
    ELSE IF boundary_trend # 0
    THEN LET channel_mid == ChannelMid(upper_bound, lower_bound)
         IN  IF \/ boundary_trend = -1 /\ c < channel_mid
                \/ boundary_trend = 1 /\ c > channel_mid
             THEN [c |-> c, boundary_trend |-> -boundary_trend]
             ELSE [c |-> c, boundary_trend |-> boundary_trend]
    ELSE [c |-> c, boundary_trend |-> boundary_trend]

\* EnforceBoundaries clearing the trend on every tick inside the channel
EnforceBoundaries_ReleaseAlways(c, lower_bound, upper_bound, boundary_trend) ==
    IF c >= upper_bound THEN [c |-> upper_bound, boundary_trend |-> -1]
    ELSE IF c <= lower_bound THEN [c |-> lower_bound, boundary_trend |-> 1]
    ELSE [c |-> c, boundary_trend |-> 0]

\* EnforceBoundaries with a midpoint fallback for an inverted channel
EnforceBoundaries_MidpointFallback(c, lower_bound, upper_bound, boundary_trend) ==
    IF lower_bound > upper_bound
    THEN [c |-> ChannelMid(upper_bound, lower_bound),
          boundary_trend |-> boundary_trend]
    ELSE IF c >= upper_bound THEN [c |-> upper_bound, boundary_trend |-> -1]
    ELSE IF c <= lower_bound THEN [c |-> lower_bound, boundary_trend |-> 1]
    ELSE IF boundary_trend # 0
    THEN LET channel_mid == ChannelMid(upper_bound, lower_bound)
         IN  IF \/ boundary_trend = -1 /\ c < channel_mid
                \/ boundary_trend = 1 /\ c > channel_mid
             THEN [c |-> c, boundary_trend |-> 0]
             ELSE [c |-> c, boundary_trend |-> boundary_trend]
    ELSE [c |-> c, boundary_trend |-> boundary_trend]

\* 5. Enforce Strict Boundaries and Update Trend: the close and the new trend
EnforceBoundaries(c, lower_bound, upper_bound, boundary_trend) ==
    IF c >= upper_bound THEN [c |-> upper_bound, boundary_trend |-> -1]
    ELSE IF c <= lower_bound THEN [c |-> lower_bound, boundary_trend |-> 1]
    ELSE IF boundary_trend # 0
    THEN LET channel_mid == ChannelMid(upper_bound, lower_bound)
         IN  IF \/ boundary_trend = -1 /\ c < channel_mid
                \/ boundary_trend = 1 /\ c > channel_mid
             THEN [c |-> c, boundary_trend |-> 0]
             ELSE [c |-> c, boundary_trend |-> boundary_trend]
    ELSE [c |-> c, boundary_trend |-> boundary_trend]

\* round(x, 2): a price in mills rounded to cents, ties to even
Round2(x) ==
    LET q == x \div 10
        r == x % 10
    IN  IF r < 5 THEN q
        ELSE IF r > 5 THEN q + 1
        ELSE IF q % 2 = 0 THEN q ELSE q + 1

\* MakeBar with the open cut to cents (int) instead of rounded
MakeBar_TruncatedOpen(now_dt, o, c) ==
    [t |-> now_dt * 1000,
     o |-> o \div 10,
     h |-> Round2(Max2(o, c)),
     l |-> Round2(Min2(o, c)),
     c |-> Round2(c)]

\* MakeBar with the high taken from the open alone
MakeBar_HighFromOpen(now_dt, o, c) ==
    [t |-> now_dt * 1000,
     o |-> Round2(o),
     h |-> Round2(o),
     l |-> Round2(Min2(o, c)),
     c |-> Round2(c)]

\* 8. the returned bar: t in milliseconds, prices in cents
MakeBar(now_dt, o, c) ==
    [t |-> now_dt * 1000,
     o |-> Round2(o),
     h |-> Round2(Max2(o, c)),
     l |-> Round2(Min2(o, c)),
     c |-> Round2(c)]

\* _generate_one_second(st, now_dt) with the gauss draw z: the new state, the
\* returned bar, and loc, the values of the local variables of the call
\* (pre is the state on entry)
GenerateOneSecond(st, now_dt, z) ==
    LET minute_of_day  == Hour(now_dt) * 60 + Minute(now_dt)
        st1            == UpdateAnchors(st, now_dt)
        garch          == GetGarchVolatility(st1.prev_return, st1.garch_variance)
        seasonal_vol   == MulDiv(garch.sigma, USeasonality(minute_of_day), 1000)
        bands          == Bands(st1)
        lower_bound    == LowerBound(bands)
        upper_bound    == UpperBound(bands)
        base_return    == Trunc(z * seasonal_vol, 10)
        boundary_drift == BoundaryDrift(st1.boundary_trend, seasonal_vol)
        total_return   == base_return + boundary_drift
        o              == st1.p
        candidate      == CandidateClose(o, total_return)
        enf            == EnforceBoundaries(candidate, lower_bound, upper_bound,
                                            st1.boundary_trend)
        c              == enf.c
    IN  [st  |-> [st1 EXCEPT !.garch_variance = garch.new_variance,
                             !.boundary_trend = enf.boundary_trend,
                             !.p = c,
                             !.prev_return = IF o # 0 THEN LogRatio(c, o) ELSE 0],
         bar |-> MakeBar(now_dt, o, c),
         loc |-> [now_dt |-> now_dt, z |-> z, pre |-> st,
                  resets |-> AnchorResets(now_dt),
                  sigma |-> garch.sigma, seasonal_vol |-> seasonal_vol,
                  bands |-> bands,
                  lower_bound |-> lower_bound, upper_bound |-> upper_bound,
                  boundary_drift |-> boundary_drift,
                  total_return |-> total_return,
                  o |-> o, candidate |-> candidate, c |-> c]]

(***************************************************************************)
(* main_loop: the state of one instrument driven by the loop's clock.      *)
(***************************************************************************)
VARIABLES
    st,        \* the SyntheticStream of the instrument
    clock,     \* the wall clock, in whole seconds
    bar,       \* the bar returned by the last tick
    loc,       \* the local variables of the last tick
    prev_dt,   \* now_dt of the tick before the last one, -1 if none
    nticks,    \* number of ticks made
    fresh,     \* TRUE: created by SyntheticStream(price); FALSE: from_dict
    history,   \* history[symbol]: the retained bars of the instrument
    last_save_minute,
    state_file,     \* contents of STATE_FILE for the instrument, or NoFile
    history_file,   \* contents of HISTORY_FILE for the instrument, or NoFile
    states,    \* the states dictionary of main_loop: symbol -> stream
    rng        \* the state of the random module: the gauss draws to come

vars == <<st, clock, bar, loc, prev_dt, nticks, fresh,
          history, last_save_minute, state_file, history_file, states, rng>>

\* the initial prices: the default of __init__ and one draw of
\* random.uniform(50, 200), in mills
InitialPrices == {100000, 187530}

\* the draws of random.gauss(0, 1), in tenths
GaussDraws == {-30, -2, 0, 2, 30}

\* the wall-clock second at which the loop starts: shortly before the end of
\* a minute, of a 5-minute block, of an hour and of a day
StartTimes == {58, 298, 3598, 86398}

\* the seconds from one reading of the clock to the next: the loop sleeps to
\* the next whole second, and an iteration that saves and pushes takes longer
Elapsed == {1, 2}

\* the draws of the five random.uniform calls of __init__: every timeframe at
\* the top of its range, and each of s1, m1, m5, h1 in turn at the bottom
InitDraws ==
    LET top == [tf \in Timeframes |-> REVERSION_RANGES[tf][2]]
    IN  {top} \cup {[top EXCEPT ![tf] = REVERSION_RANGES[tf][1]] :
                       tf \in Timeframes \ {"d1"}}

\* contents of STATE_FILE for the instrument: a saved attribute dictionary;
\* in two of them the 1-minute anchor is far from the saved price
StateFiles ==
    {[p |-> 100000, d1_open |-> 100000, h1_open |-> 100000,
      m5_open |-> 100000, m1_open |-> x[1],
      reversion_strength |->
          [s1 |-> 100, m1 |-> 250, m5 |-> 350, h1 |-> 500, d1 |-> 500],
      garch_variance |-> 100000, prev_return |-> 0, boundary_trend |-> x[2]] :
        x \in {<<93000, 0>>, <<107000, 0>>, <<100000, -1>>, <<100000, 1>>}}

NoTick == [now_dt |-> -1]
NoFile == "absent"

\* a bar written by an earlier run, k seconds into the file
OldBar(k) == [t |-> k * 1000, o |-> 10000, h |-> 10000, l |-> 10000, c |-> 10000]

\* contents of HISTORY_FILE for the instrument: exactly the retained length,
\* and two bars longer than that
HistoryFiles ==
    {[k \in 1..n |-> OldBar(k)] : n \in {MaxHistory, MaxHistory + 2}}

\* history[symbol].append(new_bar), then one pop(0) if the list is too long
AppendBar(hist, new_bar) ==
    LET appended == Append(hist, new_bar)
    IN  IF Len(appended) > MaxHistory THEN Tail(appended) ELSE appended

\* the state after main_loop's start-up: a new stream, or the one loaded
InitFresh ==
    /\ fresh = TRUE
    /\ state_file = NoFile
    /\ history_file = NoFile
    /\ \E price \in InitialPrices, u \in InitDraws : st = NewStream(price, u)
    /\ history = << >>

InitLoaded ==
    /\ fresh = FALSE
    /\ \E data \in StateFiles : state_file = JsonDump(data)
    /\ history_file \in HistoryFiles
    /\ \E u \in InitDraws :
          st = FromDict(JsonLoad(state_file), NewStream(100000, u))
    /\ history = history_file
    /\ clock \in {58, 86398}

Init ==
    /\ InitFresh \/ InitLoaded
    /\ clock \in StartTimes
    /\ bar = NoTick
    /\ loc = NoTick
    /\ prev_dt = -1
    /\ nticks = 0
    /\ last_save_minute = -1
    /\ states = << >>
    /\ rng = << >>

\* one iteration of the while loop: read the clock, generate one second of
\* data, append the bar to the history, save both files when the minute has
\* changed, sleep until a later whole second
LoopIteration ==
    /\ nticks < MaxTicks
    /\ \E z \in GaussDraws, d \in Elapsed :
          \E g \in {GenerateOneSecond(st, clock, z)} :
              /\ st' = g.st
              /\ bar' = g.bar
              /\ loc' = g.loc
              /\ history' = AppendBar(history, g.bar)
              /\ IF Minute(clock) # last_save_minute
                 THEN /\ state_file' = JsonDump(ToDict(g.st))
                      /\ history_file' = AppendBar(history, g.bar)
                 ELSE UNCHANGED <<state_file, history_file>>
              /\ clock' = clock + d
    /\ last_save_minute' = Minute(clock)
    /\ prev_dt' = IF nticks = 0 THEN -1 ELSE loc.now_dt
    /\ nticks' = nticks + 1
    /\ UNCHANGED <<fresh, states, rng>>

Next == LoopIteration

Spec == Init /\ [][Next]_vars

(***************************************************************************)
(* main_loop with several instruments.  Every stream draws from the one    *)
(* generator of the random module; rng is the sequence of the gauss draws  *)
(* it will return, each call of _generate_one_second taking the next one.  *)
(* Here bar, history and the two files are dictionaries by symbol.         *)
(***************************************************************************)
\* the first symbols of SYMBOLS
Symbols == {"AAPL", "GOOG"}

\* the orders in which for symbol, stream in states.items() can visit them
Orders == {order \in [1..Cardinality(Symbols) -> Symbols] :
              \A i, j \in DOMAIN order : order[i] = order[j] => i = j}

\* the draws of random.gauss(0, 1) of this specification, in tenths
PairDraws == {-30, 30}

\* the for loop over the instruments: each is ticked with the next draw of
\* the shared generator; acc holds states, the bars returned and rng
RECURSIVE TickAll(_, _, _)
TickAll(acc, order, now_dt) ==
    IF order = << >> THEN acc
    ELSE LET symbol == Head(order)
             g == GenerateOneSecond(acc.states[symbol], now_dt, Head(acc.rng))
         IN  TickAll([states |-> [acc.states EXCEPT ![symbol] = g.st],
                      bars   |-> [acc.bars EXCEPT ![symbol] = g.bar],
                      rng    |-> Tail(acc.rng)],
                     Tail(order), now_dt)

\* start-up without files: a new stream per symbol
InitPair ==
    /\ \E u \in InitDraws :
          states = [symbol \in Symbols |->
                       NewStream(IF symbol = "AAPL" THEN 100000 ELSE 187530, u)]
    /\ rng \in [1..(MaxTicks * Cardinality(Symbols)) -> PairDraws]
    /\ clock \in {58, 86398}
    /\ history = [symbol \in Symbols |-> << >>]
    /\ bar = [symbol \in Symbols |-> NoTick]
    /\ state_file = NoFile
    /\ history_file = NoFile
    /\ last_save_minute = -1
    /\ nticks = 0
    /\ st = NoTick
    /\ loc = NoTick
    /\ prev_dt = -1
    /\ fresh = TRUE

\* one iteration of the while loop over all instruments, in some order
PairIteration ==
    /\ nticks < MaxTicks
    /\ \E order \in Orders :
          \E r \in {TickAll([states |-> states, bars |-> bar, rng |-> rng],
                             order, clock)} :
              /\ states' = r.states
              /\ bar' = r.bars
              /\ rng' = r.rng
              /\ history' = [symbol \in Symbols |->
                                AppendBar(history[symbol], r.bars[symbol])]
              /\ IF Minute(clock) # last_save_minute
                 THEN /\ state_file' = [symbol \in Symbols |->
                                           JsonDump(ToDict(r.states[symbol]))]
                      /\ history_file' = [symbol \in Symbols |->
                                AppendBar(history[symbol], r.bars[symbol])]
                 ELSE UNCHANGED <<state_file, history_file>>
    /\ last_save_minute' = Minute(clock)
    /\ clock' = clock + 1
    /\ nticks' = nticks + 1
    /\ UNCHANGED <<st, loc, prev_dt, fresh>>

NextPair == PairIteration

SpecPair == InitPair /\ [][NextPair]_vars


(***************************************************************************)
(* Properties.  loc holds the last tick: loc.pre the state on entry,       *)
(* loc.o the price entering it, loc.candidate the close before the         *)
(* boundary enforcement, st the state it left.                             *)
(***************************************************************************)
Ticked == nticks > 0

\* the effective boundary computed from the state on entry of the last tick,
\* before its anchor update
PriorLower == LowerBound(Bands(loc.pre))
PriorUpper == UpperBound(Bands(loc.pre))

\* the last tick's channel is inverted
Inverted == loc.lower_bound > loc.upper_bound

\* the anchor each timeframe's band used on the last tick
UsedAnchor(tf) == IF tf = "s1" THEN loc.o ELSE AnchorOf(st, tf)

(* C1 as stated: on every tick after the first the close lies within the
   effective boundary computed from the anchors as they stood BEFORE the
   tick's anchor update, unless that boundary is inverted. *)
C1_CloseWithinPriorBoundary ==
    nticks > 1 =>
        \/ PriorLower > PriorUpper
        \/ PriorLower <= loc.c /\ loc.c <= PriorUpper

(* C1 amended: on every tick after the first the close lies within the
   effective boundary computed from the anchors as they stand AFTER the
   tick's anchor update, unless that boundary is inverted. *)
C1_CloseWithinBoundary ==
    nticks > 1 =>
        \/ Inverted
        \/ loc.lower_bound <= st.p /\ st.p <= loc.upper_bound

\* a reset tick whose close is inside the boundary of the updated anchors and
\* above the boundary of the anchors before the update
C1_Witness ==
    /\ nticks > 1
    /\ loc.resets # {}
    /\ ~Inverted
    /\ PriorLower <= PriorUpper
    /\ st.p > PriorUpper
    /\ st.p <= loc.upper_bound

(* C2: after every tick of an instrument created fresh, the close lies in
   the band of each of the five timeframes, the bands being those of the
   anchors after the tick's anchor update with s1 anchored at the open. *)
C2_CloseInEveryBand ==
    (fresh /\ Ticked) =>
        \A tf \in Timeframes :
            /\ BandLower(UsedAnchor(tf), st.reversion_strength[tf]) <= st.p
            /\ st.p <= BandUpper(UsedAnchor(tf), st.reversion_strength[tf])

\* the candidate close left the 1-second band while every wider band allowed
\* it, and the close was held at the 1-second band
C2_Witness ==
    /\ fresh /\ Ticked
    /\ loc.candidate > loc.bands["s1"][2]
    /\ \A tf \in Timeframes \ {"s1"} : loc.candidate < loc.bands[tf][2]
    /\ st.p = loc.bands["s1"][2]

(* C3: if the candidate close is >= upper the close is upper and the trend
   is -1 after the tick; if it is < upper and <= lower the close is lower and
   the trend is +1; whatever the trend was before. *)
C3_ClampRule ==
    Ticked =>
        /\ loc.candidate >= loc.upper_bound =>
              st.p = loc.upper_bound /\ st.boundary_trend = -1
        /\ (loc.candidate < loc.upper_bound /\ loc.candidate <= loc.lower_bound) =>
              st.p = loc.lower_bound /\ st.boundary_trend = 1

\* a clamp at the upper bound on a tick entered with upward pressure
C3_Witness ==
    /\ Ticked
    /\ loc.pre.boundary_trend = 1
    /\ loc.candidate > loc.upper_bound
    /\ st.p = loc.upper_bound
    /\ st.boundary_trend = -1

(* C4: boundary_trend is always -1, 0 or +1, and a tick that changes it to
   -1 (to +1) closes exactly at the tick's upper (lower) bound. *)
C4_TrendTransitions ==
    /\ st.boundary_trend \in {-1, 0, 1}
    /\ Ticked =>
          /\ (st.boundary_trend = -1 /\ loc.pre.boundary_trend # -1) =>
                st.p = loc.upper_bound
          /\ (st.boundary_trend = 1 /\ loc.pre.boundary_trend # 1) =>
                st.p = loc.lower_bound

\* a tick that turned a neutral trend into upward pressure
C4_Witness ==
    /\ Ticked
    /\ loc.pre.boundary_trend = 0
    /\ st.boundary_trend = 1
    /\ st.p = loc.lower_bound

(* C5: on a tick whose candidate close is strictly between lower and upper
   the close is the candidate, and the trend becomes 0 exactly when it was -1
   and the candidate is below the channel midpoint or it was +1 and the
   candidate is above it; otherwise the trend is unchanged. *)
C5_TrendRelease ==
    (Ticked /\ loc.lower_bound < loc.candidate /\ loc.candidate < loc.upper_bound) =>
        LET mid == ChannelMid(loc.upper_bound, loc.lower_bound)
            was == loc.pre.boundary_trend
        IN  /\ st.p = loc.candidate
            /\ st.boundary_trend =
                  IF \/ was = -1 /\ loc.candidate < mid
                     \/ was = 1 /\ loc.candidate > mid
                  THEN 0 ELSE was

\* downward pressure kept on a tick that closed inside the channel without
\* crossing below its midpoint
C5_Witness ==
    /\ Ticked
    /\ loc.pre.boundary_trend = -1
    /\ loc.lower_bound < loc.candidate /\ loc.candidate < loc.upper_bound
    /\ loc.candidate >= ChannelMid(loc.upper_bound, loc.lower_bound)
    /\ st.boundary_trend = -1

(* C6: a tick leaves m1_open unchanged unless second = 0, m5_open unless
   second = 0 and minute % 5 = 0, h1_open unless second = 0 and minute = 0,
   d1_open unless second = 0, minute = 0 and hour = 0. *)
C6_AnchorsChangeOnlyOnReset ==
    Ticked =>
        LET s == Second(loc.now_dt)
            m == Minute(loc.now_dt)
            h == Hour(loc.now_dt)
        IN  /\ st.m1_open # loc.pre.m1_open => s = 0
            /\ st.m5_open # loc.pre.m5_open => (s = 0 /\ m % 5 = 0)
            /\ st.h1_open # loc.pre.h1_open => (s = 0 /\ m = 0)
            /\ st.d1_open # loc.pre.d1_open => (s = 0 /\ m = 0 /\ h = 0)

\* a tick at second 0 of a minute that starts no 5-minute block: m1_open has
\* changed, and m5_open has not although the price had left it
C6_Witness ==
    /\ Ticked
    /\ Second(loc.now_dt) = 0 /\ Minute(loc.now_dt) % 5 # 0
    /\ st.m1_open # loc.pre.m1_open
    /\ st.m5_open = loc.pre.m5_open
    /\ loc.o # st.m5_open

(* C7: a tick that resets d1_open resets h1_open, one that resets h1_open
   resets m5_open, one that resets m5_open resets m1_open, and every anchor
   reset on a tick is set to the price entering the tick. *)
C7_NestedResets ==
    Ticked =>
        /\ "d1_open" \in loc.resets => "h1_open" \in loc.resets
        /\ "h1_open" \in loc.resets => "m5_open" \in loc.resets
        /\ "m5_open" \in loc.resets => "m1_open" \in loc.resets
        /\ \A a \in loc.resets : st[a] = loc.o

\* the first tick of a day, entered at a price different from the old anchors
C7_Witness ==
    /\ Ticked
    /\ loc.resets = {"m1_open", "m5_open", "h1_open", "d1_open"}
    /\ loc.pre.d1_open # loc.o
    /\ st.d1_open = loc.o /\ st.h1_open = loc.o
    /\ st.m5_open = loc.o /\ st.m1_open = loc.o

(* C8: on the first tick whose timestamp falls in a new minute (5-minute
   block, hour, day) compared with the previous tick, m1_open (m5_open,
   h1_open, d1_open) is set to the price entering that tick, also when the
   clock has skipped a second. *)
C8_ResetOnRollover ==
    nticks > 1 =>
        /\ loc.now_dt \div 60 # prev_dt \div 60 => st.m1_open = loc.o
        /\ loc.now_dt \div 300 # prev_dt \div 300 => st.m5_open = loc.o
        /\ loc.now_dt \div 3600 # prev_dt \div 3600 => st.h1_open = loc.o
        /\ loc.now_dt \div 86400 # prev_dt \div 86400 => st.d1_open = loc.o

(* C9 as stated: on a tick whose effective lower bound exceeds the upper
   bound the close is the midpoint (lower + upper) / 2 (to the rounding of
   the division). *)
C9_MidpointFallback ==
    (Ticked /\ Inverted) =>
        2 * st.p \in {loc.lower_bound + loc.upper_bound + d : d \in {-1, 0, 1}}

(* C9 amended: on a tick whose effective lower bound exceeds the upper
   bound no midpoint is taken: the close is the upper bound, with trend -1,
   if the candidate close is >= upper, and otherwise the lower bound, with
   trend +1. *)
C9_InvertedClamp ==
    (Ticked /\ Inverted) =>
        IF loc.candidate >= loc.upper_bound
        THEN st.p = loc.upper_bound /\ st.boundary_trend = -1
        ELSE st.p = loc.lower_bound /\ st.boundary_trend = 1

\* a loaded state with the 1-minute anchor far above the price: the candidate
\* is below both bounds and the close is the lower bound, above the upper
C9_Witness ==
    /\ Ticked /\ Inverted
    /\ ~fresh
    /\ loc.candidate < loc.upper_bound
    /\ st.p = loc.lower_bound
    /\ st.p > loc.upper_bound

(* C10: on every tick of an instrument created fresh the stored
   garch_variance is the unfloored value omega + alpha r^2 + gamma r^2 [r<0]
   + beta prevVariance, it is >= 0, and the sigma of the tick satisfies
   sigma^2 >= 1e-9. *)
C10_VarianceAndSigma ==
    (fresh /\ Ticked) =>
        LET r  == loc.pre.prev_return
            r2 == r * r
        IN  /\ st.garch_variance =
                  GARCH_OMEGA + (GARCH_ALPHA * r2) \div 100
                  + (IF r < 0 THEN (GARCH_GAMMA * r2) \div 100 ELSE 0)
                  + (GARCH_BETA * loc.pre.garch_variance) \div 100
            /\ st.garch_variance >= 0
            \* sigma in units of 1e-6, 1e-9 in units of 1e-12
            /\ (loc.sigma \div 1000) * (loc.sigma \div 1000) >= 1000

\* a tick after a negative return: the leverage term is part of the variance
C10_Witness ==
    /\ fresh /\ Ticked
    /\ loc.pre.prev_return < 0
    /\ st.garch_variance > GARCH_OMEGA

(* C11: every returned bar has l <= o <= h and l <= c <= h, its h is the   *)
(* larger and its l the smaller of its o and c, all on the emitted cents,  *)
(* where o is the rounded price that entered the tick and c the rounded    *)
(* price that left it.                                                     *)
C11_BarShape ==
    Ticked =>
        /\ bar.o = Round2(loc.pre.p)
        /\ bar.c = Round2(st.p)
        /\ bar.l <= bar.o /\ bar.o <= bar.h
        /\ bar.l <= bar.c /\ bar.c <= bar.h
        /\ bar.h = Max2(bar.o, bar.c)
        /\ bar.l = Min2(bar.o, bar.c)

\* a falling bar whose close is not a whole number of cents before rounding
C11_Witness ==
    /\ Ticked
    /\ st.p < loc.o
    /\ st.p % 10 # 0
    /\ bar.c < bar.o
    /\ bar.h = bar.o
    /\ bar.l = bar.c

(* C12: in a state reached from a fresh instrument with boundary_trend = 0 *)
(* a tick with the draw z = 0 has no drift, a close equal to the open      *)
(* strictly inside the channel (no clamp), leaves boundary_trend = 0, sets *)
(* prev_return = 0 and returns a bar with o = h = l = c; with the price    *)
(* 100.0 the bar is 100.00 four times.                                     *)
C12_ZeroShock ==
    (Ticked /\ fresh /\ loc.pre.boundary_trend = 0 /\ loc.z = 0) =>
        /\ loc.boundary_drift = 0
        /\ loc.total_return = 0
        /\ loc.candidate = loc.o
        /\ loc.lower_bound < loc.candidate
        /\ loc.candidate < loc.upper_bound
        /\ st.p = loc.o
        /\ st.boundary_trend = 0
        /\ st.prev_return = 0
        /\ bar.o = bar.h /\ bar.h = bar.l /\ bar.l = bar.c
        /\ (loc.o = 100000 => bar.c = 10000)

\* the price 100.0 ticked at 00:00:00 with z = 0 and the strengths
\* s1 0.01, m1 0.025, m5 0.035, h1 0.05, d1 0.05
C12_Witness ==
    /\ Ticked /\ fresh
    /\ loc.pre.boundary_trend = 0
    /\ loc.z = 0
    /\ loc.o = 100000
    /\ loc.now_dt % 86400 = 0
    /\ st.reversion_strength =
           [s1 |-> 100, m1 |-> 250, m5 |-> 350, h1 |-> 500, d1 |-> 500]
    /\ bar.o = 10000 /\ bar.h = 10000 /\ bar.l = 10000 /\ bar.c = 10000

\* what json.load reads from a state file into which the stream was saved
SavedAndLoaded(stream) == JsonLoad(JsonDump(ToDict(stream)))

C15_StrengthFixed ==
    /\ \A tf \in Timeframes :
          /\ 0 < st.reversion_strength[tf]
          /\ st.reversion_strength[tf] < StrOne
          /\ fresh =>
                /\ REVERSION_RANGES[tf][1] <= 2 * st.reversion_strength[tf] + 1
                /\ 2 * st.reversion_strength[tf] <= REVERSION_RANGES[tf][2]
    /\ Ticked => st.reversion_strength = loc.pre.reversion_strength

\* a fresh instrument with the narrowest s1 band after ticks that clamped
C15_Witness ==
    /\ fresh
    /\ nticks >= 2
    /\ st.reversion_strength["s1"] = 5
    /\ st.boundary_trend # 0
    /\ st.p # loc.pre.p

(* C16: an instrument created with a positive price keeps its price and    *)
(* its four anchors strictly positive through every tick, so no tick takes *)
(* the open = 0 branch of the prev_return computation.                     *)
C16_Positive ==
    fresh =>
        /\ st.p > 0
        /\ st.d1_open > 0 /\ st.h1_open > 0
        /\ st.m5_open > 0 /\ st.m1_open > 0
        /\ Ticked =>
              /\ loc.o > 0
              /\ st.prev_return = LogRatio(st.p, loc.o)

\* a fresh instrument pushed down to its lower boundary on the third tick
C16_Witness ==
    /\ fresh
    /\ nticks >= 3
    /\ loc.candidate < loc.lower_bound
    /\ st.p = loc.lower_bound
    /\ st.prev_return < 0

(* C17: the drift has the sign of boundary_trend and is zero when it is 0; *)
(* with the draw z = 0 the close before enforcement is strictly below the  *)
(* open after an upper clamp (trend -1) and strictly above it after a      *)
(* lower clamp (trend +1).                                                 *)
C17_DriftDirection ==
    Ticked =>
        /\ loc.pre.boundary_trend = 0 => loc.boundary_drift = 0
        /\ loc.pre.boundary_trend = 1 => loc.boundary_drift > 0
        /\ loc.pre.boundary_trend = -1 => loc.boundary_drift < 0
        /\ (loc.z = 0 /\ loc.pre.boundary_trend = -1) => loc.candidate < loc.o
        /\ (loc.z = 0 /\ loc.pre.boundary_trend = 1) => loc.candidate > loc.o

\* the tick after an upper clamp of a fresh instrument, with z = 0
C17_Witness ==
    /\ fresh
    /\ nticks >= 2
    /\ loc.pre.boundary_trend = -1
    /\ loc.z = 0
    /\ loc.boundary_drift < 0
    /\ loc.candidate < loc.o

(* C18: from a fresh instrument, on every tick, after the anchor update,   *)
(* the price entering the tick lies within every timeframe's band, so it   *)
(* lies within the effective boundary, which is not inverted.              *)
C18_NoInversion ==
    (Ticked /\ fresh) =>
        /\ \A tf \in Timeframes :
              /\ loc.bands[tf][1] <= loc.o
              /\ loc.o <= loc.bands[tf][2]
        /\ loc.lower_bound <= loc.o
        /\ loc.o <= loc.upper_bound
        /\ loc.lower_bound <= loc.upper_bound

\* a tick entered with the price exactly on the upper edge of a stored
\* anchor's band, where the previous tick clamped it
C18_Witness ==
    /\ fresh
    /\ nticks >= 2
    /\ loc.resets = {}
    /\ loc.o = loc.upper_bound
    /\ \E tf \in Timeframes \ {"s1"} : loc.o = loc.bands[tf][2]

(* C19: the open of every tick after the first is the unrounded close of   *)
(* the tick before, nothing in between (the save included) changes the     *)
(* price, and the o of each emitted bar is the c of the bar before it.     *)
C19_BarContinuity ==
    [][(nticks > 0 /\ nticks' = nticks + 1) =>
          /\ loc'.pre.p = st.p
          /\ loc'.o = loc.c
          /\ bar'.o = bar.c
          /\ history'[Len(history')] = bar'
          /\ history'[Len(history') - 1] = bar]_vars

\* two consecutive bars of a run with the save of the state between their
\* ticks, whose common price rounds up to the next cent
C19_Witness ==
    /\ nticks >= 2
    /\ Len(history) >= 2
    /\ history[Len(history)].o = history[Len(history) - 1].c
    /\ loc.o % 10 >= 5
    /\ bar.o # bar.c
    /\ state_file = JsonDump(ToDict(loc.pre))

(* C20: after every loop iteration the history holds at most MaxHistory    *)
(* bars, whatever history was loaded at start-up, and ends with the bars   *)
(* of this run in emission order.                                          *)
C20_HistoryBounded ==
    Ticked =>
        /\ Len(history) <= MaxHistory
        /\ history[Len(history)] = bar

(* C14: ticking one instrument changes no field of another instrument's    *)
(* state, and the states and bars the instruments have after a second do   *)
(* not depend on the order in which they were ticked within it.            *)
C14_Independence ==
    /\ [](nticks < MaxTicks =>
            \A symbol \in Symbols : \A other \in Symbols \ {symbol} :
                TickAll([states |-> states, bars |-> bar, rng |-> rng],
                        <<symbol>>, clock).states[other] = states[other])
    /\ [][nticks' = nticks + 1 =>
            \A order \in Orders :
                LET r == TickAll([states |-> states, bars |-> bar, rng |-> rng],
                                 order, clock)
                IN  r.states = states' /\ r.bars = bar']_vars

=============================================================================
